---- MODULE Spec2Model ----
(***************************************************************************)
(* Model of minesweeper.py: the game engine MinesweeperGame (construction, *)
(* random bomb placement, hint computation, play with its flood fill) and  *)
(* the click handler MinesweeperGameUI._update_game with its game_over     *)
(* flag.                                                                   *)
(***************************************************************************)
EXTENDS Integers, Sequences, FiniteSets, TLC

VARIABLES pc, width, height, number_of_bombs, grid, bombs,
          known_cells_coordinates, number_of_cells_to_uncover,
          game_over, result, outcomes, to_check

vars == <<pc, width, height, number_of_bombs, grid, bombs,
          known_cells_coordinates, number_of_cells_to_uncover,
          game_over, result, outcomes, to_check>>

\* ---- bounds of the model ------------------------------------------------
MaxSide == 3
MaxCells == 6
MaxBombs == 2
MaxPlays == 2

\* ---- helpers ------------------------------------------------------------
Range(s) == {s[i] : i \in 1..Len(s)}

\* range(n) of Python: empty when n <= 0
PyRange(n) == 0..(n - 1)

\* the coordinates of the cells the nested loops of __init__ create
Coordinates == PyRange(width) \X PyRange(height)

\* a freshly created cell (hint 0, no bomb)
NewGrid(w, h) == [c \in PyRange(w) \X PyRange(h) |-> [bomb |-> FALSE, hint |-> 0]]

\* grid_width * grid_height - number_of_bombs
CellsToUncoverNoBombs(w, h, n) == w * h
CellsToUncover(w, h, n) == w * h - n

\* Python list indexing: i is valid for a list of length len when
\* -len <= i < len, and a negative i counts from the end.
PyLen(n) == IF n > 0 THEN n ELSE 0
PyIndexOk(i, len) == -len <= i /\ i < len
PyIndex(i, len) == IF i < 0 THEN i + len ELSE i

\* cell(x, y) is self._grid[y][x]: the coordinates of the cell it returns,
\* or "IndexError" when either index is outside its list.
cell(x, y) ==
  IF PyIndexOk(y, PyLen(height)) /\ PyIndexOk(x, PyLen(width))
  THEN <<PyIndex(x, PyLen(width)), PyIndex(y, PyLen(height))>>
  ELSE "IndexError"

\* the (u, v) pairs of the two nested loops of _neighbour_cells, in order
Offsets == << <<-1, -1>>, <<-1, 0>>, <<-1, 1>>,
              << 0, -1>>, << 0, 0>>, << 0, 1>>,
              << 1, -1>>, << 1, 0>>, << 1, 1>> >>

RECURSIVE NeighboursFrom(_, _, _, _, _)
NeighboursFrom(x, y, w, h, i) ==
  IF i > Len(Offsets) THEN <<>>
  ELSE LET u == Offsets[i][1]
           v == Offsets[i][2]
           nx == x + u
           ny == y + v
           rest == NeighboursFrom(x, y, w, h, i + 1)
       IN IF <<u, v>> = <<0, 0>> THEN rest
          ELSE IF 0 <= nx /\ nx < w /\ 0 <= ny /\ ny < h
               THEN <<(<<nx, ny>>)>> \o rest
               ELSE rest

\* a variant that only walks the 4 orthogonal neighbours
RECURSIVE OrthogonalFrom(_, _, _, _, _)
OrthogonalFrom(x, y, w, h, i) ==
  IF i > Len(Offsets) THEN <<>>
  ELSE LET u == Offsets[i][1]
           v == Offsets[i][2]
           nx == x + u
           ny == y + v
           rest == OrthogonalFrom(x, y, w, h, i + 1)
       IN IF u * v # 0 \/ <<u, v>> = <<0, 0>> THEN rest
          ELSE IF 0 <= nx /\ nx < w /\ 0 <= ny /\ ny < h
               THEN <<(<<nx, ny>>)>> \o rest
               ELSE rest

\* a variant that forgets to skip the cell itself
RECURSIVE WithSelfFrom(_, _, _, _, _)
WithSelfFrom(x, y, w, h, i) ==
  IF i > Len(Offsets) THEN <<>>
  ELSE LET nx == x + Offsets[i][1]
           ny == y + Offsets[i][2]
           rest == WithSelfFrom(x, y, w, h, i + 1)
       IN IF 0 <= nx /\ nx < w /\ 0 <= ny /\ ny < h
          THEN <<(<<nx, ny>>)>> \o rest
          ELSE rest

neighbour_cells_with_self(x, y, w, h) == WithSelfFrom(x, y, w, h, 1)
neighbour_cells_orthogonal(x, y, w, h) == OrthogonalFrom(x, y, w, h, 1)
\* _neighbour_cells(x, y): the 8 (or less) cells around (x, y), in yield order
neighbour_cells(x, y, w, h) == NeighboursFrom(x, y, w, h, 1)

\* cell[CELL.HINT] += 1
SetHintToOne(g, c) == [g EXCEPT ![c].hint = 1]
IncrementHint(g, c) == [g EXCEPT ![c].hint = @ + 1]

\* for cell in self._neighbour_cells(x, y): cell[CELL.HINT] += 1
RECURSIVE IncrementAll(_, _, _)
IncrementAll(g, cs, i) ==
  IF i > Len(cs) THEN g
  ELSE IncrementAll(IncrementHint(g, cs[i]), cs, i + 1)

\* for x, y in self.bombs: ...
RECURSIVE SetHints(_, _, _, _, _)
SetHints(g, bs, w, h, i) ==
  IF i > Len(bs) THEN g
  ELSE SetHints(IncrementAll(g, neighbour_cells(bs[i][1], bs[i][2], w, h), 1),
                bs, w, h, i + 1)

\* one iteration of the bomb loop with the drawn coordinate c:
\* the pair <<grid, bombs>> after it
PlaceBombNoCheck(g, bs, c) ==
  <<[g EXCEPT ![c].bomb = TRUE], Append(bs, c)>>
PlaceBomb(g, bs, c) ==
  IF ~g[c].bomb
  THEN <<[g EXCEPT ![c].bomb = TRUE], Append(bs, c)>>
  ELSE <<g, bs>>

\* ---- construction -------------------------------------------------------
NoResult == [x |-> 0, y |-> 0, ret |-> "None", hints |-> <<>>, visits |-> 0]

Init ==
  /\ pc = "init"
  /\ width = 0
  /\ height = 0
  /\ number_of_bombs = 0
  /\ grid = <<>>
  /\ bombs = <<>>
  /\ known_cells_coordinates = <<>>
  /\ number_of_cells_to_uncover = 0
  /\ game_over = FALSE
  /\ result = NoResult
  /\ outcomes = <<>>
  /\ to_check = <<>>

\* __init__ up to the bomb loop; when the loop body never runs the hint loop
\* runs over an empty bomb list and construction is complete.
New(w, h, n) ==
  /\ pc = "init"
  /\ width' = w
  /\ height' = h
  /\ number_of_bombs' = n
  /\ number_of_cells_to_uncover' = CellsToUncover(w, h, n)
  /\ IF ~(CellsToUncover(w, h, n) > 0)
     THEN /\ pc' = "AssertionError"
          /\ UNCHANGED <<grid, bombs>>
     ELSE /\ grid' = NewGrid(w, h)
          /\ bombs' = <<>>
          /\ pc' = IF 0 < n THEN "placing" ELSE "ready"
  /\ UNCHANGED <<known_cells_coordinates, game_over, result, outcomes, to_check>>

\* one iteration of `while len(self.bombs) < number_of_bombs` with the
\* coordinate randint draws; after the iteration that places the last bomb
\* the hint loop runs.
Draw ==
  /\ pc = "placing"
  /\ IF width - 1 < 0 \/ height - 1 < 0
     THEN /\ pc' = "ValueError"
          /\ UNCHANGED <<grid, bombs>>
     ELSE \E x \in 0..(width - 1), y \in 0..(height - 1) :
            LET placed == PlaceBomb(grid, bombs, cell(x, y))
            IN IF Len(placed[2]) < number_of_bombs
               THEN /\ grid' = placed[1]
                    /\ bombs' = placed[2]
                    /\ pc' = "placing"
               ELSE /\ grid' = SetHints(placed[1], placed[2], width, height, 1)
                    /\ bombs' = placed[2]
                    /\ pc' = "ready"
  /\ UNCHANGED <<width, height, number_of_bombs, known_cells_coordinates,
                 number_of_cells_to_uncover, game_over, result, outcomes, to_check>>

\* ---- play ---------------------------------------------------------------
\* self.cell(x, y)[CELL.IS_BOMB]
is_not_bomb(c) == ~grid[c].bomb
is_bomb(c) == grid[c].bomb

\* coordinates in self._known_cells_coordinates
is_known(c, known) == c \in Range(known)

\* the while loop of play: cells_to_check is a stack (pop takes the last
\* element); known is _known_cells_coordinates, hints the list being built,
\* visits the number of cells popped so far.
RECURSIVE TraverseRecordFirst(_, _, _, _)
TraverseRecordFirst(cells_to_check, known, hints, visits) ==
  IF cells_to_check = <<>>
  THEN [known |-> known, hints |-> hints, visits |-> visits]
  ELSE LET c == cells_to_check[Len(cells_to_check)]
           rest == SubSeq(cells_to_check, 1, Len(cells_to_check) - 1)
       IN TraverseRecordFirst(
            IF ~is_known(c, known) /\ grid[c].hint = 0
            THEN rest \o neighbour_cells(c[1], c[2], width, height)
            ELSE rest,
            Append(known, c),
            Append(hints, <<c, grid[c].hint>>),
            visits + 1)

\* a variant that also spreads from cells whose hint is 1
RECURSIVE TraverseExpandOnes(_, _, _, _)
TraverseExpandOnes(cells_to_check, known, hints, visits) ==
  IF cells_to_check = <<>>
  THEN [known |-> known, hints |-> hints, visits |-> visits]
  ELSE LET c == cells_to_check[Len(cells_to_check)]
           rest == SubSeq(cells_to_check, 1, Len(cells_to_check) - 1)
       IN IF is_known(c, known)
          THEN TraverseExpandOnes(rest, known, hints, visits + 1)
          ELSE TraverseExpandOnes(
                 IF grid[c].hint <= 1
                 THEN rest \o neighbour_cells(c[1], c[2], width, height)
                 ELSE rest,
                 Append(known, c),
                 Append(hints, <<c, grid[c].hint>>),
                 visits + 1)

\* a variant that leaves the loop (break) at the first known cell it pops
RECURSIVE TraverseBreakOnKnown(_, _, _, _)
TraverseBreakOnKnown(cells_to_check, known, hints, visits) ==
  IF cells_to_check = <<>>
  THEN [known |-> known, hints |-> hints, visits |-> visits]
  ELSE LET c == cells_to_check[Len(cells_to_check)]
           rest == SubSeq(cells_to_check, 1, Len(cells_to_check) - 1)
       IN IF is_known(c, known)
          THEN [known |-> known, hints |-> hints, visits |-> visits + 1]
          ELSE TraverseBreakOnKnown(
                 IF grid[c].hint = 0
                 THEN rest \o neighbour_cells(c[1], c[2], width, height)
                 ELSE rest,
                 Append(known, c),
                 Append(hints, <<c, grid[c].hint>>),
                 visits + 1)

RECURSIVE Traverse(_, _, _, _)
Traverse(cells_to_check, known, hints, visits) ==
  IF cells_to_check = <<>>
  THEN [known |-> known, hints |-> hints, visits |-> visits]
  ELSE LET c == cells_to_check[Len(cells_to_check)]
           rest == SubSeq(cells_to_check, 1, Len(cells_to_check) - 1)
       IN IF is_known(c, known)
          THEN Traverse(rest, known, hints, visits + 1)
          ELSE Traverse(
                 IF grid[c].hint = 0
                 THEN rest \o neighbour_cells(c[1], c[2], width, height)
                 ELSE rest,
                 Append(known, c),
                 Append(hints, <<c, grid[c].hint>>),
                 visits + 1)

\* known_cells_count == self._number_of_cells_to_uncover
game_won(known) == Len(known) = number_of_cells_to_uncover

\* a variant of play that records the clicked bomb as known before it
\* returns False
play_records_bomb(x, y) ==
  LET c == cell(x, y)
  IN IF c = "IndexError"
     THEN [ret |-> "IndexError", hints |-> <<>>,
           known |-> known_cells_coordinates, visits |-> 0]
     ELSE IF is_bomb(c)
     THEN [ret |-> "False", hints |-> <<>>,
           known |-> Append(known_cells_coordinates, c), visits |-> 0]
     ELSE LET t == Traverse(<<c>>, known_cells_coordinates, <<>>, 0)
          IN IF game_won(t.known)
             THEN [ret |-> "True", hints |-> <<>>,
                   known |-> t.known, visits |-> t.visits]
             ELSE [ret |-> "hints", hints |-> t.hints,
                   known |-> t.known, visits |-> t.visits]

\* play(x, y) as a function of the state: what it returns ("False", "True",
\* "hints" with the list, or the IndexError that cell raises) and the
\* _known_cells_coordinates it leaves.
play(x, y) ==
  LET c == cell(x, y)
  IN IF c = "IndexError"
     THEN [ret |-> "IndexError", hints |-> <<>>,
           known |-> known_cells_coordinates, visits |-> 0]
     ELSE IF is_bomb(c)
     THEN [ret |-> "False", hints |-> <<>>,
           known |-> known_cells_coordinates, visits |-> 0]
     ELSE LET t == Traverse(<<c>>, known_cells_coordinates, <<>>, 0)
          IN IF game_won(t.known)
             THEN [ret |-> "True", hints |-> <<>>,
                   known |-> t.known, visits |-> t.visits]
             ELSE [ret |-> "hints", hints |-> t.hints,
                   known |-> t.known, visits |-> t.visits]

\* the terminal results (False: lost, True: won) among the values play has
\* returned so far
terminal == Range(outcomes) \cap {"False", "True"}

\* a variant of the call that clears the bomb flag of a clicked bomb
PlayDefusesBomb(x, y) ==
  /\ pc = "ready"
  /\ Len(outcomes) < MaxPlays
  /\ LET r == play(x, y)
     IN /\ known_cells_coordinates' = r.known
        /\ result' = [x |-> x, y |-> y, ret |-> r.ret,
                      hints |-> r.hints, visits |-> r.visits]
        /\ outcomes' = IF r.ret = "IndexError" THEN outcomes
                       ELSE Append(outcomes, r.ret)
        /\ grid' = IF r.ret = "False"
                   THEN [grid EXCEPT ![cell(x, y)].bomb = FALSE]
                   ELSE grid
  /\ UNCHANGED <<pc, width, height, number_of_bombs, bombs,
                 number_of_cells_to_uncover, game_over, to_check>>

\* a direct call of MinesweeperGame.play(x, y); a call that raises returns
\* nothing, so it adds no outcome
Play(x, y) ==
  /\ pc = "ready"
  /\ Len(outcomes) < MaxPlays
  /\ LET r == play(x, y)
     IN /\ known_cells_coordinates' = r.known
        /\ result' = [x |-> x, y |-> y, ret |-> r.ret,
                      hints |-> r.hints, visits |-> r.visits]
        /\ outcomes' = IF r.ret = "IndexError" THEN outcomes
                       ELSE Append(outcomes, r.ret)
  /\ UNCHANGED <<pc, width, height, number_of_bombs, grid, bombs,
                 number_of_cells_to_uncover, game_over, to_check>>

\* a click on the button of cell (x, y): _update_game(x, y), which does
\* nothing once game_over is set and otherwise calls play and sets game_over
\* on True and on False
UpdateGame(x, y) ==
  /\ pc = "ready"
  /\ IF game_over
     THEN UNCHANGED <<known_cells_coordinates, game_over, result, outcomes>>
     ELSE /\ Len(outcomes) < MaxPlays
          /\ LET r == play(x, y)
             IN /\ known_cells_coordinates' = r.known
                /\ result' = [x |-> x, y |-> y, ret |-> r.ret,
                              hints |-> r.hints, visits |-> r.visits]
                /\ outcomes' = Append(outcomes, r.ret)
                /\ game_over' = (r.ret \in {"True", "False"})
  /\ UNCHANGED <<pc, width, height, number_of_bombs, grid, bombs,
                 number_of_cells_to_uncover, to_check>>

\* ---- specification ------------------------------------------------------
\* the coordinates play is called with: every cell of the grid, and one step
\* outside the grid on each of its four sides
PlayArguments ==
  Coordinates \cup {<<-1, 0>>, <<width, 0>>, <<0, -1>>, <<0, height>>}

Next ==
  \/ \E w \in -2..MaxSide, h \in -2..MaxSide, n \in -1..MaxBombs :
       w * h <= MaxCells /\ New(w, h, n)
  \/ Draw
  \/ \E c \in PlayArguments : Play(c[1], c[2])
  \/ \E x \in PyRange(width), y \in PyRange(height) : UpdateGame(x, y)

Spec == Init /\ [][Next]_vars

\* ---- play, one loop iteration at a time ---------------------------------
\* a variant of the loop body that reads the last cell without removing it
\* (cells_to_check[-1] instead of pop)
loop_body_peek(stack, known, hints) ==
  LET c == stack[Len(stack)]
  IN IF is_known(c, known)
     THEN [stack |-> stack, known |-> known, hints |-> hints]
     ELSE [stack |-> IF grid[c].hint = 0
                     THEN stack \o neighbour_cells(c[1], c[2], width, height)
                     ELSE stack,
           known |-> Append(known, c),
           hints |-> Append(hints, <<c, grid[c].hint>>)]

\* a variant of the loop body that also spreads from cells whose hint is 1
loop_body_expand_ones(stack, known, hints) ==
  LET c == stack[Len(stack)]
      rest == SubSeq(stack, 1, Len(stack) - 1)
  IN IF is_known(c, known)
     THEN [stack |-> rest, known |-> known, hints |-> hints]
     ELSE [stack |-> IF grid[c].hint <= 1
                     THEN rest \o neighbour_cells(c[1], c[2], width, height)
                     ELSE rest,
           known |-> Append(known, c),
           hints |-> Append(hints, <<c, grid[c].hint>>)]

\* one iteration of `while cells_to_check`: pop the last cell, skip it when
\* known, else record it and, when its hint is 0, push its neighbours
loop_body(stack, known, hints) ==
  LET c == stack[Len(stack)]
      rest == SubSeq(stack, 1, Len(stack) - 1)
  IN IF is_known(c, known)
     THEN [stack |-> rest, known |-> known, hints |-> hints]
     ELSE [stack |-> IF grid[c].hint = 0
                     THEN rest \o neighbour_cells(c[1], c[2], width, height)
                     ELSE rest,
           known |-> Append(known, c),
           hints |-> Append(hints, <<c, grid[c].hint>>)]

\* play(x, y) up to the loop: the bomb test and cells_to_check = [cell(x, y)]
PlayBegin(x, y) ==
  /\ pc = "ready"
  /\ Len(outcomes) < MaxPlays
  /\ LET c == cell(x, y)
     IN IF c = "IndexError"
        THEN /\ result' = [x |-> x, y |-> y, ret |-> "IndexError",
                           hints |-> <<>>, visits |-> 0]
             /\ UNCHANGED <<pc, outcomes, to_check>>
        ELSE IF is_bomb(c)
        THEN /\ result' = [x |-> x, y |-> y, ret |-> "False",
                           hints |-> <<>>, visits |-> 0]
             /\ outcomes' = Append(outcomes, "False")
             /\ UNCHANGED <<pc, to_check>>
        ELSE /\ result' = [x |-> x, y |-> y, ret |-> "running",
                           hints |-> <<>>, visits |-> 0]
             /\ to_check' = <<c>>
             /\ pc' = "play"
             /\ UNCHANGED outcomes
  /\ UNCHANGED <<width, height, number_of_bombs, grid, bombs,
                 known_cells_coordinates, number_of_cells_to_uncover, game_over>>

\* one iteration of the loop of play (the pops are not counted here)
PlayLoop ==
  /\ pc = "play"
  /\ to_check # <<>>
  /\ LET b == loop_body(to_check, known_cells_coordinates, result.hints)
     IN /\ to_check' = b.stack
        /\ known_cells_coordinates' = b.known
        /\ result' = [result EXCEPT !.hints = b.hints]
  /\ UNCHANGED <<pc, width, height, number_of_bombs, grid, bombs,
                 number_of_cells_to_uncover, game_over, outcomes>>

\* the loop has ended: the win test and the return
PlayReturn ==
  /\ pc = "play"
  /\ to_check = <<>>
  /\ pc' = "ready"
  /\ IF game_won(known_cells_coordinates)
     THEN /\ result' = [result EXCEPT !.ret = "True", !.hints = <<>>]
          /\ outcomes' = Append(outcomes, "True")
     ELSE /\ result' = [result EXCEPT !.ret = "hints"]
          /\ outcomes' = Append(outcomes, "hints")
  /\ UNCHANGED <<width, height, number_of_bombs, grid, bombs,
                 known_cells_coordinates, number_of_cells_to_uncover,
                 game_over, to_check>>

NextSteps ==
  \/ \E w \in -2..MaxSide, h \in -2..MaxSide, n \in -1..MaxBombs :
       w * h <= MaxCells /\ New(w, h, n)
  \/ Draw
  \/ \E c \in Coordinates : PlayBegin(c[1], c[2])
  \/ PlayLoop
  \/ PlayReturn

\* play is synchronous code: once called, its loop iterations and its
\* return are taken
SpecSteps ==
  /\ Init
  /\ [][NextSteps]_vars
  /\ WF_vars(PlayLoop)
  /\ WF_vars(PlayReturn)

\* ---- vocabulary of the properties ---------------------------------------
\* the configuration given to the constructor is a valid one
ValidConfig ==
  /\ width > 0
  /\ height > 0
  /\ 0 <= number_of_bombs
  /\ number_of_bombs < width * height

InBounds(x, y) == 0 <= x /\ x < width /\ 0 <= y /\ y < height

\* this step is a call of play that returns (called directly or by a click)
PlayCalled == Len(outcomes') = Len(outcomes) + 1

\* this step is a direct call of play with coordinates outside the grid
OutOfBoundsPlay ==
  /\ ValidConfig
  /\ result' # result \/ outcomes' # outcomes
  /\ ~InBounds(result'.x, result'.y)

\* this step runs play on a valid board with in-bounds coordinates
InBoundsPlay == ValidConfig /\ PlayCalled /\ InBounds(result'.x, result'.y)

\* the coordinates play was last called with
Target == <<result.x, result.y>>

Revealed == Range(known_cells_coordinates)
Mines == Range(bombs)
SafeCells == Coordinates \ Mines

\* a and b are distinct cells of the board touching by a side or a corner
Adjacent(a, b) ==
  /\ a # b
  /\ a[1] - b[1] \in {-1, 0, 1}
  /\ a[2] - b[2] \in {-1, 0, 1}

AdjacentCells(c) == {d \in Coordinates : Adjacent(c, d)}

RECURSIVE SumOver(_, _)
SumOver(S, f) ==
  IF S = {} THEN 0
  ELSE LET c == CHOOSE c \in S : TRUE IN f[c] + SumOver(S \ {c}, f)

\* ---- C1 -----------------------------------------------------------------
\* C1 (as claimed): once a call of play has returned Loss (False), every
\* later call with in-bounds coordinates returns Loss again and leaves the
\* revealed list unchanged (stated for calls that follow an in-bounds call).
C1_LossIsTerminal ==
  [][(InBoundsPlay /\ InBounds(result.x, result.y) /\ "False" \in terminal)
       => /\ result'.ret = "False"
          /\ known_cells_coordinates' = known_cells_coordinates]_vars

\* ---- C2 -----------------------------------------------------------------
\* C2 (as claimed): once a call of play has returned Win (True), every later
\* call with in-bounds coordinates, a mine cell included, returns Win again
\* and leaves the revealed list unchanged (stated for calls that follow an
\* in-bounds call).
C2_WinIsTerminal ==
  [][(InBoundsPlay /\ InBounds(result.x, result.y) /\ "True" \in terminal)
       => /\ result'.ret = "True"
          /\ known_cells_coordinates' = known_cells_coordinates]_vars

\* ---- C3 -----------------------------------------------------------------
\* C3: on a valid board in progress, play with in-bounds (x, y) returns Loss
\* exactly when (x, y) is one of the placed mines; whatever was revealed
\* before, a safe cell never returns Loss.
C3_LossIffMine ==
  [][(InBoundsPlay /\ terminal = {})
       => (result'.ret = "False" <=> <<result'.x, result'.y>> \in Mines)]_vars

\* a loss that follows an earlier reveal which made progress
C3_Witness ==
  /\ ValidConfig
  /\ pc = "ready"
  /\ outcomes = <<"hints", "False">>
  /\ InBounds(result.x, result.y)
  /\ Target \in Mines
  /\ known_cells_coordinates # <<>>

\* ---- C4 -----------------------------------------------------------------
\* C4: on a valid board in progress, play of a safe cell returns Win exactly
\* when afterwards every non-mine cell is revealed (the revealed count being
\* width*height - number_of_bombs), and returns Progress otherwise; so the
\* call revealing the last safe cell wins and no earlier call does.
C4_WinIffAllSafeRevealed ==
  [][(InBoundsPlay /\ terminal = {} /\ <<result'.x, result'.y>> \in SafeCells)
       => /\ result'.ret \in {"True", "hints"}
          /\ result'.ret = "True" <=> Revealed' = SafeCells
          /\ result'.ret = "True" <=>
               Len(known_cells_coordinates') = width * height - number_of_bombs]_vars

\* a win by the second reveal, after a first one that only made progress,
\* on a board that has mines
C4_Witness ==
  /\ ValidConfig
  /\ outcomes = <<"hints", "True">>
  /\ number_of_bombs > 0
  /\ InBounds(result.x, result.y)
  /\ Revealed = SafeCells

\* ---- C5 -----------------------------------------------------------------
\* the cells reachable from c by a path of adjacent cells all of whose cells
\* before the last have hint 0
RECURSIVE ReachFrom(_)
ReachFrom(S) ==
  LET more == S \cup UNION {AdjacentCells(s) : s \in {t \in S : grid[t].hint = 0}}
  IN IF more = S THEN S ELSE ReachFrom(more)

ZeroRegion(c) == ReachFrom({c})

\* C5: on a valid board, play of an unrevealed safe cell newly reveals
\* exactly the target and the cells reachable from it through hint-0 cells
\* (the zero region and its positive-hint border) that were not revealed
\* before, nothing else, and each entry of a Progress list carries the hint
\* of its cell.
C5_FloodFill ==
  [][(InBoundsPlay /\ <<result'.x, result'.y>> \in SafeCells \ Revealed)
       => LET target == <<result'.x, result'.y>>
              fresh == ZeroRegion(target) \ Revealed
          IN /\ target \in fresh
             /\ Revealed' = Revealed \cup fresh
             /\ Len(known_cells_coordinates') =
                  Len(known_cells_coordinates) + Cardinality(fresh)
             /\ result'.ret = "hints" =>
                  /\ {e[1] : e \in Range(result'.hints)} = fresh
                  /\ Len(result'.hints) = Cardinality(fresh)
                  /\ \A e \in Range(result'.hints) : e[2] = grid[e[1]].hint]_vars

\* a reveal that spread over several cells while some cell of its region had
\* been revealed by an earlier call
C5_Witness ==
  /\ ValidConfig
  /\ pc = "ready"
  /\ outcomes = <<"hints", "hints">>
  /\ InBounds(result.x, result.y)
  /\ Len(result.hints) >= 3
  /\ Len(known_cells_coordinates) > Len(result.hints)
  /\ ZeroRegion(Target) \cap Range(SubSeq(known_cells_coordinates, 1,
         Len(known_cells_coordinates) - Len(result.hints))) # {}
  /\ \E e \in Range(result.hints) : e[2] > 0

\* ---- C6 -----------------------------------------------------------------
\* C6: while the game is in progress, play of an already revealed cell
\* returns Progress with an empty list and changes neither the revealed
\* list nor its length.
C6_RevealedIsIdempotent ==
  [][(InBoundsPlay /\ terminal = {} /\ <<result'.x, result'.y>> \in Revealed)
       => /\ result'.ret = "hints"
          /\ result'.hints = <<>>
          /\ known_cells_coordinates' = known_cells_coordinates]_vars

\* a second reveal of the cell the first call revealed
C6_Witness ==
  /\ ValidConfig
  /\ outcomes = <<"hints", "hints">>
  /\ InBounds(result.x, result.y)
  /\ Target \in Revealed
  /\ result.hints = <<>>
  /\ known_cells_coordinates # <<>>

\* ---- C7 -----------------------------------------------------------------
\* C7 (as claimed): play with coordinates outside the grid ends in an
\* out-of-bounds error and changes neither the revealed list nor the status.
C7_OutOfBoundsRejected ==
  [][OutOfBoundsPlay
       => /\ result'.ret = "IndexError"
          /\ outcomes' = outcomes
          /\ known_cells_coordinates' = known_cells_coordinates
          /\ game_over' = game_over]_vars

\* ---- C8 -----------------------------------------------------------------
\* C8 (as claimed): construction with width <= 0, height <= 0,
\* number_of_bombs < 0 or number_of_bombs >= width*height fails: no board
\* is produced.
C8_InvalidConfigRejected ==
  (pc # "init" /\ ~ValidConfig) => pc # "ready"

\* ---- C9 -----------------------------------------------------------------
HintOf == [c \in Coordinates |-> grid[c].hint]
InBoundsNeighbourCount == [c \in Coordinates |-> Cardinality(AdjacentCells(c))]
SafeNeighbourCount == [c \in Coordinates |-> Cardinality(AdjacentCells(c) \ Mines)]

\* C9 (as claimed): after a valid construction the hints of the non-mine
\* cells sum to the sum over the mines of their in-bounds neighbour counts.
C9_HintSumAllNeighbours ==
  (pc = "ready" /\ ValidConfig)
    => SumOver(SafeCells, HintOf) = SumOver(Mines, InBoundsNeighbourCount)

\* C9 (amended): after a valid construction the hints of the non-mine cells
\* sum to the sum over the mines of their in-bounds non-mine neighbour counts.
C9_HintSumSafeNeighbours ==
  (pc = "ready" /\ ValidConfig)
    => SumOver(SafeCells, HintOf) = SumOver(Mines, SafeNeighbourCount)

\* a board with two mines next to each other and a safe cell touching both
C9_Witness ==
  /\ pc = "ready"
  /\ ValidConfig
  /\ \E a \in Mines, b \in Mines : Adjacent(a, b)
  /\ \E c \in SafeCells : Cardinality(AdjacentCells(c) \cap Mines) = 2

\* ---- C10 ----------------------------------------------------------------
\* C10: whatever coordinates are drawn, a valid construction ends with
\* exactly number_of_bombs cells flagged as bombs, and the bombs list holds
\* exactly those coordinates, without duplicates and all in bounds.
C10_BombsPlaced ==
  (pc = "ready" /\ ValidConfig)
    => /\ Cardinality({c \in Coordinates : grid[c].bomb}) = number_of_bombs
       /\ Len(bombs) = number_of_bombs
       /\ Cardinality(Mines) = Len(bombs)
       /\ Mines = {c \in Coordinates : grid[c].bomb}
       /\ Mines \subseteq Coordinates

\* a finished construction with the largest number of bombs
C10_Witness ==
  /\ pc = "ready"
  /\ ValidConfig
  /\ number_of_bombs = MaxBombs
  /\ Len(bombs) = MaxBombs

\* ---- C11 ----------------------------------------------------------------
\* C11: in every state after construction, whatever has been revealed, the
\* hint of every cell is the number of its in-bounds neighbours (side or
\* corner) that are mines.
C11_HintCountsAdjacentMines ==
  pc = "ready"
    => \A c \in Coordinates : grid[c].hint = Cardinality(AdjacentCells(c) \cap Mines)

\* after two reveals, a board where some cell touches two mines and some
\* mine touches another mine
C11_Witness ==
  /\ pc = "ready"
  /\ ValidConfig
  /\ Len(outcomes) = 2
  /\ \E c \in SafeCells : grid[c].hint = 2
  /\ \E m \in Mines : grid[m].hint = 1

\* ---- C12 ----------------------------------------------------------------
\* C12: on a valid board the number of revealed cells never decreases from
\* one step to the next and never exceeds width*height - number_of_bombs.
C12_RevealedCountMonotoneBounded ==
  [][(pc = "ready" /\ ValidConfig)
       => /\ Len(known_cells_coordinates') >= Len(known_cells_coordinates)
          /\ Len(known_cells_coordinates') <= width * height - number_of_bombs]_vars

\* all safe cells revealed by the first call, and a second call made on the
\* full board
C12_Witness ==
  /\ pc = "ready"
  /\ ValidConfig
  /\ number_of_bombs > 0
  /\ outcomes = <<"True", "True">>
  /\ Len(known_cells_coordinates) = width * height - number_of_bombs

\* ---- C13 ----------------------------------------------------------------
\* C13: the list of a Progress result names no cell twice and no cell that
\* was revealed before the call, and every cell it names is revealed by the
\* call; so no cell is ever named by two Progress results.
C13_ProgressListsOnlyNewCells ==
  [][(ValidConfig /\ PlayCalled /\ result'.ret = "hints")
       => LET named == {e[1] : e \in Range(result'.hints)}
          IN /\ Cardinality(named) = Len(result'.hints)
             /\ named \cap Revealed = {}
             /\ named = Revealed' \ Revealed]_vars

\* a second Progress result whose flood fill ran into a cell revealed by
\* the first one
C13_Witness ==
  /\ pc = "ready"
  /\ ValidConfig
  /\ outcomes = <<"hints", "hints">>
  /\ InBounds(result.x, result.y)
  /\ Len(result.hints) >= 2
  /\ result.visits > Len(result.hints)
  /\ Len(known_cells_coordinates) > Len(result.hints)

\* ---- C14 ----------------------------------------------------------------
\* C14: a call of play that returns Loss leaves the revealed list as it was:
\* neither the clicked mine nor any other cell is added.
C14_LossRevealsNothing ==
  [][(ValidConfig /\ PlayCalled /\ result'.ret = "False")
       => /\ known_cells_coordinates' = known_cells_coordinates
          /\ <<result'.x, result'.y>> \notin Revealed']_vars

\* a loss after a reveal that had uncovered several cells
C14_Witness ==
  /\ pc = "ready"
  /\ ValidConfig
  /\ outcomes = <<"hints", "False">>
  /\ InBounds(result.x, result.y)
  /\ Len(known_cells_coordinates) >= 2
  /\ Target \notin Revealed

\* ---- C15 ----------------------------------------------------------------
\* C15: once the board is constructed no step (no call of play, whatever it
\* returns, and no click) changes the dimensions, the bombs list, the bomb
\* flag or the hint of any cell, or the number of cells to uncover.
C15_BoardIsFrozen ==
  [][pc = "ready"
       => /\ width' = width
          /\ height' = height
          /\ number_of_bombs' = number_of_bombs
          /\ bombs' = bombs
          /\ grid' = grid
          /\ number_of_cells_to_uncover' = number_of_cells_to_uncover]_vars

\* a board with a mine and a positive hint that has seen a loss and then a
\* reveal
C15_Witness ==
  /\ pc = "ready"
  /\ ValidConfig
  /\ outcomes = <<"False", "hints">>
  /\ result.hints # <<>>
  /\ bombs # <<>>
  /\ \E c \in Coordinates : grid[c].hint > 0

\* ---- C17 ----------------------------------------------------------------
\* C17 (as claimed): one call of play takes at most width*height cells from
\* the frontier, the skipped ones included.
C17_VisitsWithinArea ==
  [][InBoundsPlay => result'.visits <= width * height]_vars

\* C17 (amended): one call of play on a safe cell takes from the frontier
\* the target and, for every cell it newly reveals whose hint is 0, each
\* in-bounds neighbour of that cell (skipped ones included); that is at most
\* 1 + 8 * (cells newly revealed) visits, of which at most width*height
\* reveal a cell.
C17_VisitsCounted ==
  [][(InBoundsPlay /\ <<result'.x, result'.y>> \in SafeCells)
       => LET new == Revealed' \ Revealed
              spread == {c \in new : grid[c].hint = 0}
          IN /\ result'.visits = 1 + SumOver(spread, InBoundsNeighbourCount)
             /\ result'.visits <= 1 + 8 * Cardinality(new)
             /\ Cardinality(new) <= width * height]_vars

\* a call that took more cells from the frontier than the board has
C17_Witness ==
  /\ pc = "ready"
  /\ ValidConfig
  /\ InBounds(result.x, result.y)
  /\ result.ret \in {"hints", "True"}
  /\ result.visits > width * height

\* ---- C19 ----------------------------------------------------------------
\* C19: between calls of play every revealed cell whose hint is 0 has all
\* its in-bounds neighbours revealed.
C19_ZeroCellsAreClosed ==
  (pc = "ready" /\ ValidConfig)
    => \A c \in Revealed : grid[c].hint = 0 => AdjacentCells(c) \subseteq Revealed

\* a game still in progress with a revealed hint-0 cell next to a revealed
\* positive-hint cell, and a safe cell not yet revealed
C19_Witness ==
  /\ pc = "ready"
  /\ ValidConfig
  /\ terminal = {}
  /\ outcomes # <<>>
  /\ \E c \in Revealed : /\ grid[c].hint = 0
                         /\ \E d \in AdjacentCells(c) : grid[d].hint > 0
  /\ SafeCells \ Revealed # {}

\* ---- C20 ----------------------------------------------------------------
\* the known list play's traversal leaves when it starts at cell c with the
\* known list `known`
KnownAfter(known, c) == Traverse(<<c>>, known, <<>>, 0).known

\* the same traversal with the frontier used as a queue: the cell taken is
\* the first of cells_to_check instead of the last
RECURSIVE TraverseQueue(_, _)
TraverseQueue(cells_to_check, known) ==
  IF cells_to_check = <<>> THEN known
  ELSE LET c == Head(cells_to_check)
           rest == Tail(cells_to_check)
       IN IF c \in Range(known)
          THEN TraverseQueue(rest, known)
          ELSE TraverseQueue(
                 IF grid[c].hint = 0
                 THEN rest \o neighbour_cells(c[1], c[2], width, height)
                 ELSE rest,
                 Append(known, c))

\* C20: on a valid board, when play reveals a safe cell b, then for every
\* safe cell a the revealed set after "b then a" equals the revealed set
\* after "a then b"; and the set play reveals is the one a queue-ordered
\* traversal would reveal.
C20_OrderIndependent ==
  [][(InBoundsPlay /\ <<result'.x, result'.y>> \in SafeCells)
       => LET b == <<result'.x, result'.y>>
          IN /\ \A a \in SafeCells :
                  Range(KnownAfter(known_cells_coordinates', a)) =
                    Range(KnownAfter(KnownAfter(known_cells_coordinates, a), b))
             /\ Revealed' = Range(TraverseQueue(<<b>>, known_cells_coordinates))]_vars

\* two reveals a then b that both made progress, where revealing b then a
\* would have recorded the cells in another order
C20_Witness ==
  /\ pc = "ready"
  /\ ValidConfig
  /\ outcomes = <<"hints", "hints">>
  /\ InBounds(result.x, result.y)
  /\ result.hints # <<>>
  /\ LET a == known_cells_coordinates[1]
         swapped == KnownAfter(KnownAfter(<<>>, Target), a)
     IN /\ a # Target
        /\ swapped # known_cells_coordinates
        /\ Range(swapped) = Revealed
        /\ TraverseQueue(<<Target>>, <<>>) # KnownAfter(<<>>, Target)

\* ---- C16 ----------------------------------------------------------------
\* C16: every call of play on a board ends: from any point of the loop the
\* frontier becomes empty and play returns, although known cells and
\* duplicates get pushed.
C16_PlayTerminates ==
  (pc = "play") ~> (pc = "ready" /\ to_check = <<>>)

\* in the middle of a call: the frontier holds a cell twice and a cell that
\* is already known
C16_Witness ==
  /\ pc = "play"
  /\ ValidConfig
  /\ \E i, j \in 1..Len(to_check) : i # j /\ to_check[i] = to_check[j]
  /\ Range(to_check) \cap Revealed # {}

\* ---- C18 ----------------------------------------------------------------
\* C18: on a valid board played with in-bounds coordinates no mine is ever
\* in the revealed list, and no mine is ever on the frontier of the
\* traversal (so none is taken from it and no mine's hint is reported).
C18_MinesNeverVisited ==
  ValidConfig
    => /\ Revealed \cap Mines = {}
       /\ Range(to_check) \cap Mines = {}
       /\ \A e \in Range(result.hints) : e[1] \notin Mines

\* in the middle of a flood fill on a board with a mine whose own hint is
\* positive, next to the cells being revealed
C18_Witness ==
  /\ pc = "play"
  /\ ValidConfig
  /\ Len(to_check) >= 2
  /\ \E m \in Mines : /\ grid[m].hint > 0
                      /\ AdjacentCells(m) \cap Revealed # {}

====
